---- MODULE Spec2Model ----
(***************************************************************************)
(* A model of zod-hook-form-generator: the ZodForm component (field       *)
(* extraction, conditional visibility, rendering), the IntlProvider        *)
(* message lookup, the validators and the demo application's schema and    *)
(* form session.                                                           *)
(*                                                                         *)
(* JavaScript values are tagged records [t, v]; a text is the sequence of  *)
(* its characters, so that length and substring tests are computed.        *)
(***************************************************************************)
EXTENDS Integers, Sequences, FiniteSets, TLC

VARIABLES
    form,            \* session: which of the Forms ZodForm is mounted with
    fieldSchema,     \* SpecVis: the field schema node handed to renderField
    watchedValues,   \* SpecVis: form.watch(), the values the conditions read
    rendered,        \* SpecVis: outcome of renderField's visibility step
    fieldName,       \* SpecRender: the name of the field handed to renderField
    descriptor,      \* SpecRender: what renderField hands to the field's widget
    values,          \* session: react-hook-form's field values
    errors,          \* session: formState.errors, field name -> message or NoError
    isValid,         \* session: formState.isValid
    locale,          \* session: IntlProvider's locale state
    pending,         \* session: a form.trigger('phoneNumber') requested by a pass
    passes,          \* session: re-validation passes run since the last event
    submitRequests,  \* session: presses of the submit button so far
    onSubmitCalls    \* session: arguments of the onSubmit calls of the last step

visVars == <<fieldSchema, watchedValues, rendered, fieldName, descriptor>>
formVars == <<form, values, errors, isValid, locale, pending, passes,
              submitRequests, onSubmitCalls>>
vars == <<form, fieldSchema, watchedValues, rendered, fieldName, descriptor,
          values, errors, isValid, locale, pending, passes, submitRequests,
          onSubmitCalls>>

----------------------------------------------------------------------------
(* JavaScript values *)

Undefined == [t |-> "undefined", v |-> <<>>]
Bool(b) == [t |-> "boolean", v |-> b]
Str(s) == [t |-> "string", v |-> s]
Num(n) == [t |-> "number", v |-> n]

\* the country literals used by the demo schema and the README
US == <<"u", "s">>
FR == <<"f", "r">>
DE == <<"d", "e">>

\* a === b on primitives: same type and same value
StrictEquals(a, b) == a.t = b.t /\ a.v = b.v

\* String.prototype.includes on character sequences
includes(hay, needle) ==
    \E i \in 0..(Len(hay) - Len(needle)) :
        SubSeq(hay, i + 1, i + Len(needle)) = needle

Digit(d) == <<"0", "1", "2", "3", "4", "5", "6", "7", "8", "9">>[d + 1]

\* ToString(x), which includes() applies to its argument
JSToString(x) ==
    CASE x.t = "string" -> x.v
      [] x.t = "undefined" -> <<"u", "n", "d", "e", "f", "i", "n", "e", "d">>
      [] x.t = "boolean" ->
            IF x.v THEN <<"t", "r", "u", "e">> ELSE <<"f", "a", "l", "s", "e">>
      [] x.t = "number" ->
            IF x.v < 10 THEN <<Digit(x.v)>>
            ELSE <<Digit(x.v \div 10), Digit(x.v % 10)>>

\* obj[key] on a value map: undefined for a key the map does not hold
Get(obj, key) == IF key \in DOMAIN obj THEN obj[key] ELSE Undefined

----------------------------------------------------------------------------
(* Field schema nodes and their metadata *)

\* the value of meta.showConditions
AbsentSC == [kind |-> "undefined", items |-> <<>>]
ArraySC(rule) == [kind |-> "array", items |-> rule]
ObjectSC == [kind |-> "object", items |-> <<>>]
TextSC(s) == [kind |-> "string", items |-> s]

\* what schema.meta() returns: undefined, or a metadata object
NoMeta == [present |-> FALSE, showConditions |-> AbsentSC]
Meta(sc) == [present |-> TRUE, showConditions |-> sc]

NoNode == [type |-> "none"]
\* no field has been rendered
NoDescriptor == [widget |-> "pending"]
\* a leaf type node; canMeta is false for a type without a meta() method
Leaf(type, canMeta, meta) ==
    [type |-> type, canMeta |-> canMeta, meta |-> meta, inner |-> NoNode,
     checks |-> <<>>, options |-> <<>>]
ZodOptional(inner, meta) ==
    [type |-> "ZodOptional", canMeta |-> TRUE, meta |-> meta, inner |-> inner,
     checks |-> <<>>, options |-> <<>>]

\* JavaScript truthiness of a showConditions value
Truthy(sc) ==
    CASE sc.kind = "undefined" -> FALSE
      [] sc.kind = "string" -> Len(sc.items) > 0
      [] OTHER -> TRUE

\* try { meta = fieldSchema.meta() } catch (e) {}: a throwing call leaves null
tryMeta(node) == IF node.canMeta THEN node.meta ELSE NoMeta

getShowConditions_noCatch(node) ==
    LET threw == ~node.canMeta
                 \/ (node.type = "ZodOptional" /\ ~node.meta.present
                     /\ ~node.inner.canMeta)
        outer == tryMeta(node)
        meta == IF node.type = "ZodOptional" /\ ~outer.present
                THEN tryMeta(node.inner) ELSE outer
    IN  [raised |-> threw,
         sc |-> IF meta.present /\ Truthy(meta.showConditions)
                THEN meta.showConditions ELSE ArraySC(<<>>)]

getShowConditions_innerFallback(node) ==
    LET outer == tryMeta(node)
        meta == IF node.type = "ZodOptional" /\ ~Truthy(outer.showConditions)
                THEN tryMeta(node.inner) ELSE outer
    IN  [raised |-> FALSE,
         sc |-> IF meta.present /\ Truthy(meta.showConditions)
                THEN meta.showConditions ELSE ArraySC(<<>>)]

\* getShowConditions: the field's own metadata, for an optional field without
\* metadata the inner type's; meta?.showConditions || []
getShowConditions(node) ==
    LET outer == tryMeta(node)
        meta == IF node.type = "ZodOptional" /\ ~outer.present
                THEN tryMeta(node.inner) ELSE outer
    IN  [raised |-> FALSE,
         sc |-> IF meta.present /\ Truthy(meta.showConditions)
                THEN meta.showConditions ELSE ArraySC(<<>>)]

----------------------------------------------------------------------------
(* Conditional visibility *)

conditionHolds_typeofDropped(condition, watched) ==
    LET fieldValue == Get(watched, condition.field)
        op == condition.operator
    IN  CASE op = "equals" -> StrictEquals(fieldValue, condition.value)
          [] op = "notEquals" -> ~StrictEquals(fieldValue, condition.value)
          [] op = "contains" ->
                fieldValue.t = "string"
                /\ includes(fieldValue.v, JSToString(condition.value))
          [] op = "notContains" ->
                ~(fieldValue.t = "string"
                  /\ includes(fieldValue.v, JSToString(condition.value)))
          [] op = "true" -> StrictEquals(fieldValue, Bool(TRUE))
          [] op = "false" -> StrictEquals(fieldValue, Bool(FALSE))
          [] OTHER -> TRUE

conditionHolds_truthy(condition, watched) ==
    LET fieldValue == Get(watched, condition.field)
        op == condition.operator
    IN  CASE op = "equals" -> StrictEquals(fieldValue, condition.value)
          [] op = "notEquals" -> ~StrictEquals(fieldValue, condition.value)
          [] op = "contains" ->
                fieldValue.t = "string"
                /\ includes(fieldValue.v, JSToString(condition.value))
          [] op = "notContains" ->
                fieldValue.t = "string"
                /\ ~includes(fieldValue.v, JSToString(condition.value))
          [] op = "true" -> fieldValue.t # "undefined" /\ fieldValue # Bool(FALSE)
          [] op = "false" -> ~(fieldValue.t # "undefined" /\ fieldValue # Bool(FALSE))
          [] OTHER -> TRUE

conditionHolds_failClosed(condition, watched) ==
    LET fieldValue == Get(watched, condition.field)
        op == condition.operator
    IN  CASE op = "equals" -> StrictEquals(fieldValue, condition.value)
          [] op = "notEquals" -> ~StrictEquals(fieldValue, condition.value)
          [] op = "contains" ->
                fieldValue.t = "string"
                /\ includes(fieldValue.v, JSToString(condition.value))
          [] op = "notContains" ->
                fieldValue.t = "string"
                /\ ~includes(fieldValue.v, JSToString(condition.value))
          [] op = "true" -> StrictEquals(fieldValue, Bool(TRUE))
          [] op = "false" -> StrictEquals(fieldValue, Bool(FALSE))
          [] OTHER -> FALSE

\* the callback of showConditions.every: the operator switch on one condition
conditionHolds(condition, watched) ==
    LET fieldValue == Get(watched, condition.field)
        op == condition.operator
    IN  CASE op = "equals" -> StrictEquals(fieldValue, condition.value)
          [] op = "notEquals" -> ~StrictEquals(fieldValue, condition.value)
          [] op = "contains" ->
                fieldValue.t = "string"
                /\ includes(fieldValue.v, JSToString(condition.value))
          [] op = "notContains" ->
                fieldValue.t = "string"
                /\ ~includes(fieldValue.v, JSToString(condition.value))
          [] op = "true" -> StrictEquals(fieldValue, Bool(TRUE))
          [] op = "false" -> StrictEquals(fieldValue, Bool(FALSE))
          [] OTHER -> TRUE

RECURSIVE everyFrom(_, _, _)
\* Array.prototype.every from index i: stops at the first failing condition
everyFrom(rule, i, watched) ==
    IF i > Len(rule) THEN TRUE
    ELSE IF ~conditionHolds(rule[i], watched) THEN FALSE
    ELSE everyFrom(rule, i + 1, watched)

\* !showConditions || showConditions.length === 0
noConditions(sc) ==
    ~Truthy(sc) \/ (sc.kind \in {"array", "string"} /\ Len(sc.items) = 0)

isFieldVisible_firstOnly(sc, watched) ==
    IF noConditions(sc) THEN [raised |-> FALSE, value |-> TRUE]
    ELSE IF sc.kind # "array" THEN [raised |-> TRUE, value |-> FALSE]
    ELSE [raised |-> FALSE, value |-> conditionHolds(sc.items[1], watched)]

\* isFieldVisible: no conditions -> true; else every(); a value without
\* every() (not an array) raises a TypeError
isFieldVisible(sc, watched) ==
    IF noConditions(sc) THEN [raised |-> FALSE, value |-> TRUE]
    ELSE IF sc.kind # "array" THEN [raised |-> TRUE, value |-> FALSE]
    ELSE [raised |-> FALSE, value |-> everyFrom(sc.items, 1, watched)]

\* renderField up to its visibility check: "hidden" is `return null`
renderVisibility(node, watched) ==
    LET got == getShowConditions(node)
        vis == isFieldVisible(got.sc, watched)
    IN  IF got.raised \/ vis.raised THEN "raised"
        ELSE IF vis.value THEN "visible" ELSE "hidden"

----------------------------------------------------------------------------
(* SpecVis: renderField's visibility step on bounded schema nodes and values *)

MaxConds == 2

Operators ==
    {"equals", "notEquals", "contains", "notContains", "true", "false",
     "isTrue", "isFalse", ">="}
RecognizedOperators ==
    {"equals", "notEquals", "contains", "notContains", "true", "false"}

\* "ghost" names no field of the watched values
CondFields == {"country", "hasAddress", "ghost"}
CondValues == {Undefined, Bool(TRUE), Str(US), Str(<<"u">>), Num(18)}
AllConds == [field : CondFields, operator : Operators, value : CondValues]
MultiConds ==
    [field : {"country", "hasAddress"}, operator : {"equals", "notEquals", "true"},
     value : {Str(US), Bool(TRUE)}]

Rules ==
    {<<>>} \cup {<<c>> : c \in AllConds}
    \cup UNION {[1..n -> MultiConds] : n \in 2..MaxConds}

WatchedMaps ==
    [country : {Undefined, Bool(TRUE), Bool(FALSE), Str(US), Str(<<"u">>), Num(18)},
     hasAddress : {Undefined, Bool(TRUE), Bool(FALSE)}]

\* how a field's type node can carry the rule
ProbeSchemas ==
    {Leaf("ZodString", TRUE, Meta(ArraySC(r))) : r \in Rules}
    \cup {ZodOptional(Leaf("ZodString", TRUE, Meta(ArraySC(r))), NoMeta) : r \in Rules}
    \cup {ZodOptional(Leaf("ZodString", TRUE, Meta(ArraySC(r))), Meta(AbsentSC)) :
            r \in {<<c>> : c \in MultiConds}}
    \cup {Leaf("ZodString", TRUE, NoMeta),
          Leaf("ZodString", TRUE, Meta(AbsentSC)),
          Leaf("ZodString", FALSE, NoMeta),
          ZodOptional(Leaf("ZodString", TRUE, NoMeta), NoMeta),
          ZodOptional(Leaf("ZodString", TRUE, Meta(AbsentSC)), NoMeta),
          ZodOptional(Leaf("ZodString", FALSE, NoMeta), NoMeta),
          Leaf("ZodString", TRUE, Meta(ObjectSC)),
          Leaf("ZodString", TRUE, Meta(TextSC(US))),
          Leaf("ZodString", TRUE, Meta(TextSC(<<>>)))}

NoSession ==
    /\ form = "none"
    /\ values = <<>>
    /\ errors = <<>>
    /\ isValid = FALSE
    /\ locale = "en"
    /\ pending = FALSE
    /\ passes = 0
    /\ submitRequests = 0
    /\ onSubmitCalls = <<>>

InitVis ==
    /\ fieldSchema \in ProbeSchemas
    /\ watchedValues \in WatchedMaps
    /\ rendered = "pending"
    /\ fieldName = <<>>
    /\ descriptor = NoDescriptor
    /\ NoSession

\* fieldSchemas.map(renderField) for the probed field
RenderField ==
    /\ rendered = "pending"
    /\ rendered' = renderVisibility(fieldSchema, watchedValues)
    /\ UNCHANGED <<fieldSchema, watchedValues, fieldName, descriptor>>
    /\ UNCHANGED formVars

\* a watched value changes: the form renders again
WatchValue ==
    /\ rendered # "pending"
    /\ \E w \in WatchedMaps :
          /\ \E k \in DOMAIN w :
                /\ w[k] # watchedValues[k]
                /\ \A j \in DOMAIN w \ {k} : w[j] = watchedValues[j]
          /\ watchedValues' = w
    /\ rendered' = "pending"
    /\ UNCHANGED <<fieldSchema, fieldName, descriptor>>
    /\ UNCHANGED formVars

NextVis == RenderField \/ WatchValue

SpecVis == InitVis /\ [][NextVis]_vars

----------------------------------------------------------------------------
(* Claims on the visibility evaluator, checked under SpecVis *)

\* the probed field declares an array of conditions in its own metadata
HasRule ==
    /\ fieldSchema.type = "ZodString"
    /\ fieldSchema.canMeta
    /\ fieldSchema.meta.present
    /\ fieldSchema.meta.showConditions.kind = "array"
TheRule == fieldSchema.meta.showConditions.items
HasOneCondition == HasRule /\ Len(TheRule) = 1
TheCond == TheRule[1]
\* v: the value the condition reads; c: the condition's value
TheV == Get(watchedValues, TheCond.field)
TheC == TheCond.value
IsSubstring(needle, hay) ==
    \E i \in 1..(Len(hay) + 1) : \E j \in (i - 1)..Len(hay) : SubSeq(hay, i, j) = needle

\* C3: the empty rule is visible; a non-empty rule is visible iff every one of
\* its conditions is satisfied by the values, wherever the failing one stands
C3_VisibleIffAllConditionsHold ==
    (rendered # "pending" /\ HasRule) =>
        /\ rendered \in {"visible", "hidden"}
        /\ (rendered = "visible") <=>
              \A i \in 1..Len(TheRule) : conditionHolds(TheRule[i], watchedValues)
C3_Witness ==
    /\ HasRule /\ Len(TheRule) = 2 /\ rendered = "hidden"
    /\ conditionHolds(TheRule[1], watchedValues)
    /\ ~conditionHolds(TheRule[2], watchedValues)

\* C4: equals is v === c, notEquals is v !== c, contains / notContains hold iff
\* v is a text that contains / does not contain c (c in its string form)
C4_ComparisonOperators ==
    (rendered # "pending" /\ HasOneCondition) =>
        /\ TheCond.operator = "equals" => ((rendered = "visible") <=> TheV = TheC)
        /\ TheCond.operator = "notEquals" => ((rendered = "visible") <=> TheV # TheC)
        /\ TheCond.operator = "contains" =>
              ((rendered = "visible") <=>
                  (TheV.t = "string" /\ IsSubstring(JSToString(TheC), TheV.v)))
        /\ TheCond.operator = "notContains" =>
              ((rendered = "visible") <=>
                  (TheV.t = "string" /\ ~IsSubstring(JSToString(TheC), TheV.v)))
C4_Witness ==
    /\ HasOneCondition /\ rendered = "hidden"
    /\ TheCond.operator = "notContains" /\ TheV = Undefined

\* C5 as stated: operator isTrue holds iff the value is exactly true, operator
\* isFalse iff it is exactly false
C5_IsTrueIsFalseOperators ==
    (rendered # "pending" /\ HasOneCondition) =>
        /\ TheCond.operator = "isTrue" =>
              ((rendered = "visible") <=> TheV = Bool(TRUE))
        /\ TheCond.operator = "isFalse" =>
              ((rendered = "visible") <=> TheV = Bool(FALSE))

\* C5 amended: the operators are named 'true' and 'false'; 'true' holds iff the
\* value is exactly true, 'false' iff exactly false, any other value (unset
\* included) hides the field; isTrue and isFalse are unrecognized names, so a
\* condition carrying them holds for every value
C5_TrueFalseOperators ==
    (rendered # "pending" /\ HasOneCondition) =>
        /\ TheCond.operator = "true" =>
              /\ TheV = Bool(TRUE) => rendered = "visible"
              /\ TheV # Bool(TRUE) => rendered = "hidden"
        /\ TheCond.operator = "false" =>
              /\ TheV = Bool(FALSE) => rendered = "visible"
              /\ TheV # Bool(FALSE) => rendered = "hidden"
        /\ TheCond.operator \in {"isTrue", "isFalse"} => rendered = "visible"
C5_Witness ==
    /\ HasOneCondition /\ rendered = "hidden"
    /\ TheCond.operator = "true" /\ TheV = Str(US)

\* the README's conditional field: z.string().meta({showConditions:
\* [{field: 'hasAddress', operator: op}]}).optional()
ReadmeField(op) ==
    ZodOptional(
        Leaf("ZodString", TRUE,
             Meta(ArraySC(<<[field |-> "hasAddress", operator |-> op,
                             value |-> Undefined]>>))),
        NoMeta)

\* C6: with the README's operator names, the field declared with operator
\* 'true' on hasAddress is visible exactly while hasAddress is true, and with
\* 'false' exactly while it is false
C6_ReadmeTrueFalse ==
    rendered # "pending" =>
        /\ fieldSchema = ReadmeField("true") =>
              ((rendered = "visible") <=> watchedValues.hasAddress = Bool(TRUE))
        /\ fieldSchema = ReadmeField("false") =>
              ((rendered = "visible") <=> watchedValues.hasAddress = Bool(FALSE))
C6_Witness ==
    /\ fieldSchema = ReadmeField("true")
    /\ watchedValues.hasAddress = Undefined
    /\ rendered = "hidden"

\* C7: a condition with an unrecognized operator ('>=' included) is satisfied
\* whatever the referenced value and the condition value are
C7_UnknownOperatorFailOpen ==
    (rendered # "pending" /\ HasOneCondition
        /\ TheCond.operator \notin RecognizedOperators) => rendered = "visible"
C7_Witness ==
    /\ HasOneCondition /\ rendered = "visible"
    /\ TheCond.operator = ">=" /\ TheC = Num(18) /\ TheV = Undefined

\* C8 as stated: a condition on a field name the values do not hold never
\* hides the field, for every operator and every value map
C8_DanglingReferenceFailOpen ==
    (rendered # "pending" /\ HasOneCondition /\ TheCond.field = "ghost")
        => rendered = "visible"

\* neither the node nor, for an optional node without metadata, its inner type
\* declares showConditions
InnerDeclaresNone ==
    \/ ~fieldSchema.inner.canMeta
    \/ ~fieldSchema.inner.meta.present
    \/ fieldSchema.inner.meta.showConditions.kind = "undefined"
DeclaresNoConditions ==
    \/ ~fieldSchema.canMeta
    \/ fieldSchema.meta.present /\ fieldSchema.meta.showConditions.kind = "undefined"
    \/ /\ ~fieldSchema.meta.present
       /\ fieldSchema.type = "ZodOptional" => InnerDeclaresNone

\* C9: a field without metadata, with metadata lacking showConditions, or of a
\* type that cannot carry metadata is rendered visible for every value map,
\* and the extraction does not raise
C9_NoMetadataAlwaysVisible ==
    (rendered # "pending" /\ DeclaresNoConditions) => rendered = "visible"
C9_Witness ==
    /\ rendered = "visible"
    /\ fieldSchema = ZodOptional(Leaf("ZodString", FALSE, NoMeta), NoMeta)

----------------------------------------------------------------------------
(* IntlProvider: the message tables and formatMessage *)

\* the form, field, option and error messages of src/i18n/en.ts
en ==
    "form.submit" :> "Submit Form"
    @@ "form.email.placeholder" :> "Enter your email"
    @@ "form.password.placeholder" :> "Enter your password"
    @@ "form.field.placeholder" :> "Enter {fieldName}"
    @@ "form.select.placeholder" :> "Select {fieldName}"
    @@ "field.name" :> "Name"
    @@ "field.email" :> "Email"
    @@ "field.password" :> "Password"
    @@ "field.repeatPassword" :> "Repeat Password"
    @@ "field.country" :> "Country"
    @@ "field.gender" :> "Gender"
    @@ "field.notifications" :> "Notifications"
    @@ "field.newsletter" :> "Newsletter"
    @@ "field.phoneNumber" :> "Phone Number"
    @@ "field.address" :> "Address"
    @@ "field.terms" :> "Terms and Conditions"
    @@ "field.notifications.description" :> "Receive notifications by email"
    @@ "field.newsletter.description" :> "Subscribe to our newsletter"
    @@ "field.terms.description" :> "I accept the terms and conditions"
    @@ "field.name.placeholder" :> "Enter your full name"
    @@ "field.email.placeholder" :> "Enter your email address"
    @@ "field.password.placeholder" :> "Enter your password"
    @@ "field.repeatPassword.placeholder" :> "Confirm your password"
    @@ "field.phoneNumber.placeholder" :> "Enter your phone number"
    @@ "field.address.placeholder" :> "Enter your address"
    @@ "field.password.help" :> "Password must be at least 6 characters"
    @@ "field.phoneNumber.help" :> "Required for US residents only"
    @@ "field.address.help" :> "Required for non-US residents"
    @@ "country.us" :> "United States"
    @@ "country.ca" :> "Canada"
    @@ "country.uk" :> "United Kingdom"
    @@ "country.fr" :> "France"
    @@ "country.de" :> "Germany"
    @@ "gender.male" :> "Male"
    @@ "gender.female" :> "Female"
    @@ "gender.other" :> "Other"
    @@ "gender.prefer-not-to-say" :> "Prefer not to say"
    @@ "error.required" :> "This field is required"
    @@ "error.invalid" :> "Invalid value"
    @@ "error.name.min" :> "Name must be at least 2 characters"
    @@ "error.email.invalid" :> "Please enter a valid email"
    @@ "error.password.min" :> "Password must be at least 6 characters"
    @@ "error.password.match" :> "Passwords don't match"
    @@ "error.password.length" :> "Password must be at least 6 characters"
    @@ "error.terms.required" :> "You must accept the terms"
    @@ "error.phoneNumber.required" :> "Phone number for US residents"
    @@ "error.phoneNumber.length" :> "Phone number must be exactly 10 digits"

\* the same keys of src/i18n/fr.ts, accents written without their marks; it
\* has no 'error.password.length'
fr ==
    "form.submit" :> "Soumettre le Formulaire"
    @@ "form.email.placeholder" :> "Entrez votre email"
    @@ "form.password.placeholder" :> "Entrez votre mot de passe"
    @@ "form.field.placeholder" :> "Entrez {fieldName}"
    @@ "form.select.placeholder" :> "Selectionnez {fieldName}"
    @@ "field.name" :> "Nom"
    @@ "field.email" :> "Email"
    @@ "field.password" :> "Mot de passe"
    @@ "field.repeatPassword" :> "Repeter le mot de passe"
    @@ "field.country" :> "Pays"
    @@ "field.gender" :> "Genre"
    @@ "field.notifications" :> "Notifications"
    @@ "field.newsletter" :> "Newsletter"
    @@ "field.phoneNumber" :> "Numero de telephone"
    @@ "field.address" :> "Adresse"
    @@ "field.terms" :> "Conditions generales"
    @@ "field.notifications.description" :> "Recevoir les notifications par email"
    @@ "field.newsletter.description" :> "S'abonner a notre newsletter"
    @@ "field.terms.description" :> "J'accepte les conditions generales"
    @@ "field.name.placeholder" :> "Entrez votre nom complet"
    @@ "field.email.placeholder" :> "Entrez votre adresse email"
    @@ "field.password.placeholder" :> "Entrez votre mot de passe"
    @@ "field.repeatPassword.placeholder" :> "Confirmez votre mot de passe"
    @@ "field.phoneNumber.placeholder" :> "Entrez votre numero de telephone"
    @@ "field.address.placeholder" :> "Entrez votre adresse"
    @@ "field.password.help" :> "Le mot de passe doit contenir au moins 6 caracteres"
    @@ "field.phoneNumber.help" :> "Requis uniquement pour les residents americains"
    @@ "field.address.help" :> "Requis pour les non-residents americains"
    @@ "country.us" :> "Etats-Unis"
    @@ "country.ca" :> "Canada"
    @@ "country.uk" :> "Royaume-Uni"
    @@ "country.fr" :> "France"
    @@ "country.de" :> "Allemagne"
    @@ "gender.male" :> "Homme"
    @@ "gender.female" :> "Femme"
    @@ "gender.other" :> "Autre"
    @@ "gender.prefer-not-to-say" :> "Prefere ne pas dire"
    @@ "error.required" :> "Ce champ est requis"
    @@ "error.invalid" :> "Valeur invalide"
    @@ "error.name.min" :> "Le nom doit contenir au moins 2 caracteres"
    @@ "error.email.invalid" :> "Veuillez entrer un email valide"
    @@ "error.password.min" :> "Le mot de passe doit contenir au moins 6 caracteres"
    @@ "error.password.match" :> "Les mots de passe ne correspondent pas"
    @@ "error.terms.required" :> "Vous devez accepter les conditions"
    @@ "error.phoneNumber.required" :>
          "Le numero de telephone est requis et doit contenir exactement 10 chiffres pour les residents americains"
    @@ "error.phoneNumber.length" :> "Le numero de telephone doit contenir exactement 10 chiffres"

Locales == {"en", "fr"}
messages == [l \in Locales |-> IF l = "en" THEN en ELSE fr]

\* formatMessage({id, defaultMessage}); "" stands for a missing defaultMessage
formatMessage(loc, id, defaultMessage) ==
    IF id \in DOMAIN messages[loc] THEN messages[loc][id]
    ELSE IF defaultMessage # "" THEN defaultMessage ELSE id

\* t({id}) as createFormSchema calls it
t(loc, id) == formatMessage(loc, id, "")

----------------------------------------------------------------------------
(* Validators and the schema checks *)

MinPhoneLen == 10
MinPasswordLen == 6
MinNameLen == 2
MinAge == 18

\* JavaScript truthiness of a value
ToBoolean(x) ==
    CASE x.t = "undefined" -> FALSE
      [] x.t = "boolean" -> x.v
      [] x.t = "string" -> Len(x.v) > 0
      [] x.t = "number" -> x.v # 0
      [] OTHER -> TRUE

\* PhoneValidator.checkPhoneNumber.validation
PhoneValidation(phoneNumber) ==
    ToBoolean(phoneNumber) /\ Len(phoneNumber.v) = MinPhoneLen

\* PasswordValidator.checkPassword.validation
PasswordValidation(password) ==
    ToBoolean(password) /\ Len(password.v) >= MinPasswordLen

\* z.string().email(): one "@" after a non-empty local part, then a domain
\* with a dot followed by at least two characters
isEmail(s) ==
    \E i \in 2..Len(s) :
        /\ s[i] = "@"
        /\ \A k \in 1..Len(s) : s[k] = "@" => k = i
        /\ \E j \in (i + 2)..(Len(s) - 2) : s[j] = "."

\* a check attached to a field type: kind, bound, message id
Check(kind, n, id) == [kind |-> kind, n |-> n, id |-> id]

checkPasses(check, value) ==
    CASE check.kind = "min_length" -> Len(value.v) >= check.n
      [] check.kind = "email" -> isEmail(value.v)
      [] check.kind = "min" -> value.v >= check.n
      [] check.kind = "checkTermsAccepted" -> StrictEquals(value, Bool(TRUE))
      [] OTHER -> TRUE

\* the type test of a leaf type
typeAccepts(node, value) ==
    CASE node.type = "ZodString" -> value.t = "string"
      [] node.type = "ZodNumber" -> value.t = "number"
      [] node.type = "ZodBoolean" -> value.t = "boolean"
      [] node.type = "ZodEnum" ->
            value.t = "string" /\ \E i \in 1..Len(node.options) : node.options[i] = value.v
      [] node.type = "ZodObject" -> value.t = "object"
      [] OTHER -> FALSE

\* zod's message for a value of the wrong type (not translated by the schema)
InvalidInput == "Invalid input"

RECURSIVE failedChecks(_, _, _, _)
failedChecks(checks, i, value, loc) ==
    IF i > Len(checks) THEN <<>>
    ELSE (IF checkPasses(checks[i], value) THEN <<>>
          ELSE <<[message |-> t(loc, checks[i].id), continue |-> TRUE]>>)
         \o failedChecks(checks, i + 1, value, loc)

\* a parse that validates only the types the form has a widget for
parseNode_widgetsOnly(node, value, loc) ==
    LET base == IF node.type = "ZodOptional" THEN node.inner ELSE node
    IN  IF base.type \notin {"ZodString", "ZodNumber", "ZodBoolean", "ZodEnum"}
             \/ (node.type = "ZodOptional" /\ value = Undefined)
        THEN <<>>
        ELSE IF ~typeAccepts(base, value)
             THEN <<[message |-> InvalidInput, continue |-> FALSE]>>
             ELSE failedChecks(base.checks, 1, value, loc)

RECURSIVE parseNode(_, _, _)
\* the issues of one field: an optional type accepts undefined, a type
\* mismatch aborts, otherwise every check of the type is run
parseNode(node, value, loc) ==
    IF node.type = "ZodOptional"
    THEN IF value = Undefined THEN <<>> ELSE parseNode(node.inner, value, loc)
    ELSE IF ~typeAccepts(node, value)
         THEN <<[message |-> InvalidInput, continue |-> FALSE]>>
         ELSE failedChecks(node.checks, 1, value, loc)

WithChecks(node, checks) == [node EXCEPT !.checks = checks]
ZodEnum(options) == [Leaf("ZodEnum", TRUE, NoMeta) EXCEPT !.options = options]

----------------------------------------------------------------------------
(* The forms ZodForm is mounted with *)

MaxSubmits == 1
MaxPasses == 1

Field(name, node) == [name |-> name, schema |-> node]
Cond(field, operator, value) == [field |-> field, operator |-> operator, value |-> value]
Refinement(fn, id, path) == [fn |-> fn, id |-> id, path |-> path]

RobinLebhar == <<"R", "o", "b", "i", "n", " ", "L", "e", "b", "h", "a", "r">>
RobinEmail == <<"r", "o", "b", "i", "n", "@", "l", "e", "b", "h", "a", "r", ".", "c", "o", "m">>
MainSt == <<"1", "2", "3", " ", "M", "a", "i", "n", " ", "S", "t", ",", " ", "A", "n", "y", "t", "o", "w", "n", ",", " ", "U", "S", "A">>
Pw123456 == <<"1", "2", "3", "4", "5", "6">>
Male == <<"m", "a", "l", "e">>
Other == <<"o", "t", "h", "e", "r">>

\* createFormSchema(t, form): the fields in declaration order
DemoShape ==
    << Field("name", WithChecks(Leaf("ZodString", TRUE, NoMeta),
                 <<Check("min_length", MinNameLen, "error.name.min")>>)),
       Field("email", WithChecks(Leaf("ZodString", TRUE, NoMeta),
                 <<Check("email", 0, "error.email.invalid")>>)),
       Field("country", ZodEnum(<<US, <<"c", "a">>, <<"u", "k">>, FR, DE>>)),
       Field("gender", ZodEnum(<<Male, <<"f", "e", "m", "a", "l", "e">>, Other, <<"p", "r", "e", "f", "e", "r", "-", "n", "o", "t", "-", "t", "o", "-", "s", "a", "y">>>>)),
       Field("notifications", Leaf("ZodBoolean", TRUE, NoMeta)),
       Field("password", WithChecks(Leaf("ZodString", TRUE, NoMeta),
                 <<Check("min_length", MinPasswordLen, "error.password.min")>>)),
       Field("repeatPassword", WithChecks(Leaf("ZodString", TRUE, NoMeta),
                 <<Check("min_length", MinPasswordLen, "error.password.min")>>)),
       Field("newsletter", ZodOptional(Leaf("ZodBoolean", TRUE,
                 Meta(ArraySC(<<Cond("notifications", "equals", Bool(TRUE))>>))), NoMeta)),
       Field("phoneNumber", ZodOptional(Leaf("ZodString", TRUE,
                 Meta(ArraySC(<<Cond("country", "equals", Str(US))>>))), NoMeta)),
       Field("address", ZodOptional(Leaf("ZodString", TRUE,
                 Meta(ArraySC(<<Cond("country", "notEquals", Str(US))>>))), NoMeta)),
       Field("terms", WithChecks(Leaf("ZodBoolean", TRUE, NoMeta),
                 <<Check("checkTermsAccepted", 0, "error.terms.required")>>)) >>

DemoRefinements_undeclaredPath ==
    << Refinement("checkPasswordMatch", "error.password.length", "confirmPassword"),
       Refinement("checkPhoneNumberLength", "error.phoneNumber.length", "phoneNumber") >>

\* the two .refine() rules of createFormSchema
DemoRefinements ==
    << Refinement("checkPasswordMatch", "error.password.length", "repeatPassword"),
       Refinement("checkPhoneNumberLength", "error.phoneNumber.length", "phoneNumber") >>

\* formOptions.defaultValues of AppContent (newsletter has none)
DemoDefaults ==
    [name |-> Str(RobinLebhar), email |-> Str(RobinEmail), country |-> Str(FR),
     gender |-> Str(Male), notifications |-> Bool(FALSE), password |-> Str(Pw123456),
     repeatPassword |-> Str(Pw123456), newsletter |-> Undefined,
     phoneNumber |-> Str(<<>>), address |-> Str(MainSt), terms |-> Bool(FALSE)]

\* the README's conditional field (a required z.string() carrying two
\* conditions), in an object with the two fields its conditions read
ReadmeShape ==
    << Field("country", ZodEnum(<<US, FR>>)),
       Field("age", WithChecks(Leaf("ZodNumber", TRUE, NoMeta),
                 <<Check("min", MinAge, "error.age.min")>>)),
       Field("zipCode", Leaf("ZodString", TRUE,
                 Meta(ArraySC(<<Cond("country", "equals", Str(US)),
                                Cond("age", ">=", Num(MinAge))>>)))) >>

ReadmeDefaults == [country |-> Str(FR), age |-> Num(MinAge), zipCode |-> Undefined]

\* the README's hasAddress/address pair, followed by a field whose condition
\* reads address, itself a conditional field
ChainShape ==
    << Field("hasAddress", Leaf("ZodBoolean", TRUE, NoMeta)),
       Field("address", ZodOptional(Leaf("ZodString", TRUE,
                 Meta(ArraySC(<<Cond("hasAddress", "true", Undefined)>>))), NoMeta)),
       Field("zipCode", ZodOptional(Leaf("ZodString", TRUE,
                 Meta(ArraySC(<<Cond("address", "notEquals", Str(<<>>))>>))), NoMeta)) >>

ChainDefaults == [hasAddress |-> Bool(FALSE), address |-> Str(<<>>), zipCode |-> Undefined]

\* the README's basic form (name, with '' as default) next to a nested object,
\* a type the form has no widget for, left without a default value
NestedShape ==
    << Field("name", WithChecks(Leaf("ZodString", TRUE, NoMeta),
                 <<Check("min_length", MinNameLen, "error.name.min")>>)),
       Field("profile", Leaf("ZodObject", TRUE, NoMeta)) >>

NestedDefaults == [name |-> Str(<<>>), profile |-> Undefined]

Forms == {"demo", "readme", "chain", "nested"}
shapeOf(f) ==
    CASE f = "demo" -> DemoShape
      [] f = "chain" -> ChainShape
      [] f = "nested" -> NestedShape
      [] OTHER -> ReadmeShape
refinementsOf(f) == IF f = "demo" THEN DemoRefinements ELSE <<>>
defaultValuesOf(f) ==
    CASE f = "demo" -> DemoDefaults
      [] f = "chain" -> ChainDefaults
      [] f = "nested" -> NestedDefaults
      [] OTHER -> ReadmeDefaults

fieldNames(f) == {shapeOf(f)[i].name : i \in 1..Len(shapeOf(f))}
errorPaths(f) ==
    fieldNames(f) \cup {refinementsOf(f)[i].path : i \in 1..Len(refinementsOf(f))}
schemaOf(f, name) ==
    shapeOf(f)[CHOOSE i \in 1..Len(shapeOf(f)) : shapeOf(f)[i].name = name].schema

\* the texts typed into, and the options picked in, the widgets of a field
typedTexts(f, name) ==
    CASE name = "name" -> {<<"R">>, RobinLebhar}
      [] name = "password" -> {<<"1", "2", "3", "4">>, Pw123456}
      [] name = "repeatPassword" -> {<<"1", "2", "3", "4">>, Pw123456, <<"1", "2", "3", "4", "5", "6", "7">>}
      [] name = "phoneNumber" -> {<<>>, <<"5", "5", "5", "1", "2", "3", "4", "5", "6", "7">>, <<"5", "5", "5", "1", "2", "3", "4", "5", "6", "7", "8">>}
      [] name = "age" -> {<<"1", "7">>, <<"2", "1">>}
      [] name = "zipCode" -> {<<>>, <<"9", "4", "1", "0", "3">>}
      [] name = "address" -> IF f = "chain" THEN {<<>>, MainSt} ELSE {}
      [] OTHER -> {}
pickedOptions(f, name) ==
    CASE name = "country" -> {US, FR}
      [] OTHER -> {}

----------------------------------------------------------------------------
(* zodResolver over the whole schema *)

NoError == ""

refinePasses_match(fn, data) ==
    CASE fn = "checkPasswordMatch" ->
            StrictEquals(Get(data, "password"), Get(data, "repeatPassword"))
      [] fn = "checkPhoneNumberLength" ->
            IF ~StrictEquals(Get(data, "country"), Str(US)) THEN TRUE
            ELSE PhoneValidation(Get(data, "phoneNumber"))
      [] OTHER -> TRUE

\* the predicate of a .refine() rule on the parsed data
refinePasses(fn, data) ==
    CASE fn = "checkPasswordMatch" -> PasswordValidation(Get(data, "password"))
      [] fn = "checkPhoneNumberLength" ->
            IF ~StrictEquals(Get(data, "country"), Str(US)) THEN TRUE
            ELSE PhoneValidation(Get(data, "phoneNumber"))
      [] OTHER -> TRUE

\* checkPhoneNumberLength calls form?.trigger('phoneNumber') once it is past
\* its country test
refineTriggers(fn, data) ==
    fn = "checkPhoneNumberLength" /\ StrictEquals(Get(data, "country"), Str(US))

\* the object's parsed output: the declared keys only
parsedData(f, vals) == [n \in fieldNames(f) |-> Get(vals, n)]

\* from the issues of the fields to the resolver's result: the refinements run
\* unless an issue aborts (a value of the wrong type); each path keeps the
\* message of its first issue, field issues coming before refinement issues
collect(f, shape, refs, data, issues, loc) ==
    LET aborted ==
            \E i \in 1..Len(shape) :
                \E k \in 1..Len(issues[i]) : ~issues[i][k].continue
        fails == [j \in 1..Len(refs) |-> ~aborted /\ ~refinePasses(refs[j].fn, data)]
        errorAt(path) ==
            IF \E i \in 1..Len(shape) : shape[i].name = path /\ issues[i] # <<>>
            THEN issues[CHOOSE i \in 1..Len(shape) : shape[i].name = path][1].message
            ELSE IF \E j \in 1..Len(refs) : refs[j].path = path /\ fails[j]
            THEN LET j == CHOOSE j \in 1..Len(refs) :
                              /\ refs[j].path = path /\ fails[j]
                              /\ \A k \in 1..(j - 1) : ~(refs[k].path = path /\ fails[k])
                 IN  t(loc, refs[j].id)
            ELSE NoError
    IN  [errors |-> [path \in errorPaths(f) |-> errorAt(path)],
         triggered |-> ~aborted /\ \E j \in 1..Len(refs) : refineTriggers(refs[j].fn, data),
         data |-> data]

\* zodResolver(schema)(values): every field is parsed, the refinements run
\* unless a field is of the wrong type, and each path keeps its first message
resolver(f, vals, loc) ==
    LET shape == shapeOf(f)
        refs == refinementsOf(f)
        data == parsedData(f, vals)
        issues == [i \in 1..Len(shape) |->
                      parseNode(shape[i].schema, data[shape[i].name], loc)]
    IN  collect(f, shape, refs, data, issues, loc)

\* isEmptyObject(errors)
isEmptyObject(errs) == \A path \in DOMAIN errs : errs[path] = NoError

----------------------------------------------------------------------------
(* renderField: the widget of a field *)

RadioLimit == 3

leafWidget(node) ==
    CASE node.type \in {"ZodString", "ZodNumber"} -> "TextInput"
      [] node.type = "ZodBoolean" -> "Switch"
      [] node.type = "ZodEnum" ->
            IF Len(node.options) <= RadioLimit THEN "Radio" ELSE "Select"
      [] OTHER -> "none"

\* the type switch of renderField: one optional wrapper is looked through
widgetOf(node) ==
    IF node.type = "ZodOptional" THEN leafWidget(node.inner) ELSE leafWidget(node)

RECURSIVE toNumber(_)
\* Number(s) on a text of digits
toNumber(s) ==
    IF s = <<>> THEN 0
    ELSE 10 * toNumber(SubSeq(s, 1, Len(s) - 1))
         + (CHOOSE d \in 0..9 : Digit(d) = s[Len(s)])

\* a text widget that hands a number to onChange for a number field
widgetInputs_asNumber(f, name, current) ==
    LET node == schemaOf(f, name)
        base == IF node.type = "ZodOptional" THEN node.inner ELSE node
        w == widgetOf(node)
    IN  IF renderVisibility(node, values) # "visible" THEN {}
        ELSE CASE w = "TextInput" ->
                     IF base.type = "ZodNumber"
                     THEN {Num(toNumber(s)) : s \in typedTexts(f, name)}
                     ELSE {Str(s) : s \in typedTexts(f, name)}
               [] w = "Switch" -> {Bool(~ToBoolean(current))}
               [] w \in {"Radio", "Select"} ->
                     {Str(o) : o \in {x \in pickedOptions(f, name) :
                                        \E i \in 1..Len(base.options) : base.options[i] = x}}
               [] OTHER -> {}

\* the values the rendered widget of a field can hand to onChange
widgetInputs(f, name, current) ==
    LET node == schemaOf(f, name)
        base == IF node.type = "ZodOptional" THEN node.inner ELSE node
        w == widgetOf(node)
    IN  IF renderVisibility(node, values) # "visible" THEN {}
        ELSE CASE w = "TextInput" -> {Str(s) : s \in typedTexts(f, name)}
               [] w = "Switch" -> {Bool(~ToBoolean(current))}
               [] w \in {"Radio", "Select"} ->
                     {Str(o) : o \in {x \in pickedOptions(f, name) :
                                        \E i \in 1..Len(base.options) : base.options[i] = x}}
               [] OTHER -> {}

----------------------------------------------------------------------------
(* renderField: label, description, placeholder and options *)

LowerCase == <<"a", "b", "c", "d", "e", "f", "g", "h", "i", "j", "k", "l", "m", "n", "o", "p", "q", "r", "s", "t", "u", "v", "w", "x", "y", "z">>
UpperCase == <<"A", "B", "C", "D", "E", "F", "G", "H", "I", "J", "K", "L", "M", "N", "O", "P", "Q", "R", "S", "T", "U", "V", "W", "X", "Y", "Z">>

toUpperCase(c) ==
    IF \E i \in 1..Len(LowerCase) : LowerCase[i] = c
    THEN UpperCase[CHOOSE i \in 1..Len(LowerCase) : LowerCase[i] = c] ELSE c
toLowerCase(c) ==
    IF \E i \in 1..Len(UpperCase) : UpperCase[i] = c
    THEN LowerCase[CHOOSE i \in 1..Len(UpperCase) : UpperCase[i] = c] ELSE c
\* [A-Z]
isUpperCase(c) == \E i \in 1..Len(UpperCase) : UpperCase[i] = c
\* \w
isWordChar(c) ==
    \/ \E i \in 1..Len(LowerCase) : c \in {LowerCase[i], UpperCase[i]}
    \/ \E d \in 0..9 : c = Digit(d)
    \/ c = "_"

RECURSIVE Join(_)
\* the text of a character sequence, as a message key or a message
Join(s) == IF s = <<>> THEN "" ELSE s[1] \o Join(Tail(s))

\* String(option).charAt(0).toUpperCase() + String(option).slice(1)
capitalize(s) == IF s = <<>> THEN <<>> ELSE <<toUpperCase(s[1])>> \o Tail(s)

RECURSIVE splitJoin(_, _)
\* name.split(/(?=[A-Z])/).join(' '): a space before every capital but the first character
splitJoin(s, i) ==
    IF i > Len(s) THEN <<>>
    ELSE (IF i > 1 /\ isUpperCase(s[i]) THEN <<" ", s[i]>> ELSE <<s[i]>>)
         \o splitJoin(s, i + 1)

\* the label's defaultMessage: split, join, toLowerCase(), replace(/^\w/, upper)
humanize(name) ==
    LET spaced == splitJoin(name, 1)
        lower == [i \in 1..Len(spaced) |-> toLowerCase(spaced[i])]
    IN  IF lower # <<>> /\ isWordChar(lower[1])
        THEN <<toUpperCase(lower[1])>> \o Tail(lower) ELSE lower

\* t({ id: `field.${name}`, defaultMessage: humanized name })
label(loc, name) ==
    formatMessage(loc, "field." \o Join(name), Join(humanize(name)))
\* t({ id: `field.${name}.description`, defaultMessage: undefined })
description(loc, name) ==
    formatMessage(loc, "field." \o Join(name) \o ".description", "")
\* t({ id: `field.${name}.placeholder`, defaultMessage: undefined })
placeholder(loc, name) ==
    formatMessage(loc, "field." \o Join(name) \o ".placeholder", "")

\* schema.options.map(option => ({ label: t({ id: `${name}.${option}`,
\* defaultMessage: capitalized option }), value: option }))
options(loc, name, literals) ==
    [i \in 1..Len(literals) |->
        [label |-> formatMessage(loc, Join(name) \o "." \o Join(literals[i]),
                                 Join(capitalize(literals[i]))),
         value |-> literals[i]]]

\* renderField past its visibility check: the texts it computes and the
\* widget it picks; a TextInput is given label and placeholder, a Switch label
\* and description, a Radio or Select label and options
renderDescriptor(name, node, loc) ==
    LET base == IF node.type = "ZodOptional" THEN node.inner ELSE node
        w == widgetOf(node)
    IN  [widget |-> w,
         label |-> label(loc, name),
         description |-> description(loc, name),
         placeholder |-> placeholder(loc, name),
         options |-> IF w \in {"Radio", "Select"}
                     THEN options(loc, name, base.options) ELSE <<>>]

----------------------------------------------------------------------------
(* SpecRender: renderField on bounded field names, types and locales *)

MaxOptions == 5

\* the field names of the forms, and shoeSize and profile, which no table knows
KnownNames ==
    {<<"n", "a", "m", "e">>,
     <<"e", "m", "a", "i", "l">>,
     <<"c", "o", "u", "n", "t", "r", "y">>,
     <<"g", "e", "n", "d", "e", "r">>,
     <<"n", "o", "t", "i", "f", "i", "c", "a", "t", "i", "o", "n", "s">>,
     <<"p", "a", "s", "s", "w", "o", "r", "d">>,
     <<"r", "e", "p", "e", "a", "t", "P", "a", "s", "s", "w", "o", "r", "d">>,
     <<"n", "e", "w", "s", "l", "e", "t", "t", "e", "r">>,
     <<"p", "h", "o", "n", "e", "N", "u", "m", "b", "e", "r">>,
     <<"a", "d", "d", "r", "e", "s", "s">>,
     <<"t", "e", "r", "m", "s">>,
     <<"a", "g", "e">>,
     <<"z", "i", "p", "C", "o", "d", "e">>,
     <<"h", "a", "s", "A", "d", "d", "r", "e", "s", "s">>,
     <<"s", "h", "o", "e", "S", "i", "z", "e">>,
     <<"p", "r", "o", "f", "i", "l", "e">>}
nameChars(name) == CHOOSE s \in KnownNames : Join(s) = name

RenderNames ==
    {nameChars(n) : n \in {"name", "country", "gender", "notifications",
                            "zipCode", "shoeSize"}}

\* literals with a translation under country or gender, "xl" with none, and ""
LiteralPool ==
    <<US, <<"c", "a">>, <<"u", "k">>, FR, DE, <<"x", "l">>, <<>>, Male>>

Reverse(s) == [i \in 1..Len(s) |-> s[Len(s) + 1 - i]]

OptionLists ==
    UNION {{SubSeq(LiteralPool, i, i + n - 1) : i \in 1..(Len(LiteralPool) - n + 1)}
           \cup {Reverse(SubSeq(LiteralPool, i, i + n - 1)) :
                   i \in 1..(Len(LiteralPool) - n + 1)} : n \in 1..MaxOptions}

RenderSchemas ==
    {ZodEnum(o) : o \in OptionLists}
    \cup {ZodOptional(ZodEnum(o), NoMeta) : o \in OptionLists}
    \cup {Leaf("ZodString", TRUE, NoMeta), Leaf("ZodNumber", TRUE, NoMeta),
          Leaf("ZodBoolean", TRUE, NoMeta),
          ZodOptional(Leaf("ZodString", TRUE, NoMeta), NoMeta),
          ZodOptional(Leaf("ZodBoolean", TRUE, NoMeta), NoMeta),
          ZodOptional(Leaf("ZodNumber", TRUE, NoMeta), NoMeta),
          ZodOptional(ZodOptional(Leaf("ZodString", TRUE, NoMeta), NoMeta), NoMeta),
          ZodOptional(ZodOptional(Leaf("ZodNumber", TRUE, NoMeta), NoMeta), NoMeta),
          ZodOptional(ZodOptional(Leaf("ZodBoolean", TRUE, NoMeta), NoMeta), NoMeta),
          ZodOptional(ZodOptional(ZodEnum(<<US, FR>>), NoMeta), NoMeta),
          Leaf("ZodObject", TRUE, NoMeta)}

InitRender ==
    /\ fieldName \in RenderNames
    /\ fieldSchema \in RenderSchemas
    /\ locale = "en"
    /\ descriptor = NoDescriptor
    /\ watchedValues = <<>>
    /\ rendered = "none"
    /\ form = "none"
    /\ values = <<>>
    /\ errors = <<>>
    /\ isValid = FALSE
    /\ pending = FALSE
    /\ passes = 0
    /\ submitRequests = 0
    /\ onSubmitCalls = <<>>

\* fieldSchemas.map(renderField) for the probed field, which has no conditions
RenderDescriptor ==
    /\ descriptor = NoDescriptor
    /\ descriptor' = renderDescriptor(fieldName, fieldSchema, locale)
    /\ UNCHANGED <<fieldName, fieldSchema, watchedValues, rendered>>
    /\ UNCHANGED formVars

\* LocaleSwitcher: setLocale(l), and the form renders again with the new t
SwitchLocale(l) ==
    /\ descriptor # NoDescriptor
    /\ l # locale
    /\ locale' = l
    /\ descriptor' = renderDescriptor(fieldName, fieldSchema, l)
    /\ UNCHANGED <<fieldName, fieldSchema, watchedValues, rendered>>
    /\ UNCHANGED <<form, values, errors, isValid, pending, passes, submitRequests,
                   onSubmitCalls>>

NextRender == RenderDescriptor \/ \E l \in Locales : SwitchLocale(l)

SpecRender == InitRender /\ [][NextRender]_vars

----------------------------------------------------------------------------
(* The form session: react-hook-form state driven by ZodForm *)

NoProbe ==
    /\ fieldSchema = NoNode
    /\ watchedValues = <<>>
    /\ rendered = "none"
    /\ fieldName = <<>>
    /\ descriptor = NoDescriptor

\* after mount: the default values, and the errors of the form.trigger() that
\* the locale effect runs once
Init ==
    /\ form \in Forms
    /\ values = defaultValuesOf(form)
    /\ locale = "en"
    /\ errors = resolver(form, values, locale).errors
    /\ isValid = isEmptyObject(errors)
    /\ pending = FALSE
    /\ passes = 0
    /\ submitRequests = 0
    /\ onSubmitCalls = <<>>
    /\ NoProbe

withTriggered_dropped(errs, r) == errs

\* form.trigger('phoneNumber') as called from checkPhoneNumberLength: the
\* phoneNumber slot takes the error of the pass
withTriggered(errs, r) ==
    IF r.triggered THEN [errs EXCEPT !["phoneNumber"] = r.errors["phoneNumber"]]
    ELSE errs

\* a session with shouldUnregister: the value of a field is dropped when the
\* field is no longer rendered
Change_unregister(name, v) ==
    /\ v # values[name]
    /\ \E stored \in {[values EXCEPT ![name] = v]} :
           values' = [n \in DOMAIN values |->
                         IF renderVisibility(schemaOf(form, n), stored) = "hidden"
                         THEN Undefined ELSE stored[n]]
    /\ \E r \in {resolver(form, values', locale)} :
           /\ errors' = withTriggered([errors EXCEPT ![name] = r.errors[name]], r)
           /\ isValid' = isEmptyObject(r.errors)
           /\ pending' = r.triggered
    /\ passes' = 0
    /\ onSubmitCalls' = <<>>
    /\ UNCHANGED <<form, locale, submitRequests>>
    /\ UNCHANGED visVars

\* a widget's onChange (mode 'onChange'): store the value, run the resolver,
\* update the changed field's error slot and isValid
Change(name, v) ==
    /\ v # values[name]
    /\ values' = [values EXCEPT ![name] = v]
    /\ \E r \in {resolver(form, values', locale)} :
           /\ errors' = withTriggered([errors EXCEPT ![name] = r.errors[name]], r)
           /\ isValid' = isEmptyObject(r.errors)
           /\ pending' = r.triggered
    /\ passes' = 0
    /\ onSubmitCalls' = <<>>
    /\ UNCHANGED <<form, locale, submitRequests>>
    /\ UNCHANGED visVars

\* a locale change that mounts the form anew on the rebuilt schema
SetLocale_reset(l) ==
    /\ l # locale
    /\ locale' = l
    /\ values' = defaultValuesOf(form)
    /\ \E r \in {resolver(form, values', l)} :
           /\ errors' = r.errors
           /\ isValid' = isEmptyObject(r.errors)
           /\ pending' = r.triggered
    /\ passes' = 0
    /\ onSubmitCalls' = <<>>
    /\ UNCHANGED <<form, submitRequests>>
    /\ UNCHANGED visVars

\* LocaleSwitcher: setLocale, the schema is rebuilt with the new t, and the
\* locale effect runs form.trigger() over every field
SetLocale(l) ==
    /\ l # locale
    /\ locale' = l
    /\ \E r \in {resolver(form, values, l)} :
           /\ errors' = r.errors
           /\ isValid' = isEmptyObject(r.errors)
           /\ pending' = r.triggered
    /\ passes' = 0
    /\ onSubmitCalls' = <<>>
    /\ UNCHANGED <<form, values, submitRequests>>
    /\ UNCHANGED visVars

SubmitPress_notDisabled ==
    /\ submitRequests < MaxSubmits
    /\ submitRequests' = submitRequests + 1
    /\ \E r \in {resolver(form, values, locale)} :
           /\ errors' = r.errors
           /\ onSubmitCalls' = <<r.data>>
           /\ isValid' = IF r.triggered THEN isEmptyObject(r.errors) ELSE isValid
           /\ pending' = r.triggered
    /\ passes' = 0
    /\ UNCHANGED <<form, values, locale>>
    /\ UNCHANGED visVars

\* a press of the submit button: nothing while it is disabled, else
\* form.handleSubmit(onSubmit) validates again and calls onSubmit if valid
SubmitPress ==
    /\ submitRequests < MaxSubmits
    /\ submitRequests' = submitRequests + 1
    /\ IF ~isValid
       THEN /\ onSubmitCalls' = <<>>
            /\ UNCHANGED <<errors, isValid, pending, passes>>
       ELSE \E r \in {resolver(form, values, locale)} :
                /\ errors' = r.errors
                /\ onSubmitCalls' = IF isEmptyObject(r.errors) THEN <<r.data>> ELSE <<>>
                /\ isValid' = IF r.triggered THEN isEmptyObject(r.errors) ELSE isValid
                /\ pending' = r.triggered
                /\ passes' = 0
    /\ UNCHANGED <<form, values, locale>>
    /\ UNCHANGED visVars

\* a form.trigger('phoneNumber') requested by the previous pass completes: it
\* runs the resolver again, which requests the next one while country is 'us'
TriggerPhoneNumber ==
    /\ pending
    /\ passes < MaxPasses
    /\ \E r \in {resolver(form, values, locale)} :
           /\ errors' = [errors EXCEPT !["phoneNumber"] = r.errors["phoneNumber"]]
           /\ isValid' = isEmptyObject(r.errors)
           /\ pending' = r.triggered
    /\ passes' = passes + 1
    /\ UNCHANGED <<form, values, locale, submitRequests, onSubmitCalls>>
    /\ UNCHANGED visVars

Next ==
    \/ \E name \in fieldNames(form) : \E v \in widgetInputs(form, name, values[name]) :
          Change(name, v)
    \/ \E l \in Locales : SetLocale(l)
    \/ SubmitPress
    \/ TriggerPhoneNumber

Spec == Init /\ [][Next]_vars

----------------------------------------------------------------------------
(* Claims on the form session, checked under Spec *)

IsHidden(name) == renderVisibility(schemaOf(form, name), values) = "hidden"
IsRequired(name) == schemaOf(form, name).type # "ZodOptional"
HoldsNonEmptyValid(name) ==
    /\ values[name] # Undefined
    /\ values[name].t = "string" => Len(values[name].v) > 0
    /\ parseNode(schemaOf(form, name), values[name], locale) = <<>>
CrossFieldRulesPass ==
    \A j \in 1..Len(refinementsOf(form)) : refinePasses(refinementsOf(form)[j].fn, values)

\* C1 as stated: isValid is true iff every visible required field holds a
\* non-empty valid value and every cross-field rule passes, so that a hidden
\* field never makes isValid false
C1_IsValidIgnoresHiddenFields ==
    isValid <=>
        /\ \A name \in fieldNames(form) :
              (~IsHidden(name) /\ IsRequired(name)) => HoldsNonEmptyValid(name)
        /\ CrossFieldRulesPass

\* C1 restricted to the demo form, whose conditional fields are all optional
\* and unconstrained: there the equivalence holds
C1_DemoOnly == form = "demo" => C1_IsValidIgnoresHiddenFields

\* C2: a press of the submit button while isValid is false calls onSubmit not
\* at all; a press while isValid is true calls it exactly once, with the
\* current value of every field, the hidden ones included
C2_SubmitOnlyWhenValid ==
    [][submitRequests' # submitRequests =>
          IF isValid
          THEN /\ Len(onSubmitCalls') = 1
               /\ DOMAIN onSubmitCalls'[1] = fieldNames(form)
               /\ \A name \in fieldNames(form) : onSubmitCalls'[1][name] = values[name]
          ELSE onSubmitCalls' = <<>>]_vars
C2_Witness ==
    /\ form = "demo" /\ submitRequests = 1 /\ Len(onSubmitCalls) = 1
    /\ IsHidden("address")
    /\ onSubmitCalls[1]["address"] = Str(MainSt)

\* C10: in the demo form, while country is not 'us' phoneNumber is hidden and
\* no value of it changes isValid; while country is 'us' and phoneNumber has
\* not exactly 10 characters, isValid is false and phoneNumber carries the
\* phone-length message
C10_PhoneNumberOnlyForUs ==
    form = "demo" =>
        /\ values["country"] # Str(US) =>
              /\ IsHidden("phoneNumber")
              /\ \A p \in typedTexts(form, "phoneNumber") :
                    isValid = isEmptyObject(
                        resolver(form, [values EXCEPT !["phoneNumber"] = Str(p)],
                                 locale).errors)
        /\ (values["country"] = Str(US) /\ Len(values["phoneNumber"].v) # MinPhoneLen) =>
              /\ ~isValid
              /\ errors["phoneNumber"] = t(locale, "error.phoneNumber.length")
C10_Witness ==
    /\ form = "demo" /\ values["country"] = Str(US)
    /\ Len(values["phoneNumber"].v) = MinPhoneLen + 1
    /\ ~isValid /\ errors["phoneNumber"] # NoError

\* the message a field's own type and checks put on it, without the
\* cross-field rules
ownError(name) ==
    LET issues == parseNode(schemaOf(form, name), values[name], locale)
    IN  IF issues = <<>> THEN NoError ELSE issues[1].message

\* C11: checkPasswordMatch passes iff password has at least 6 characters; when
\* it fails, the validation pass puts its message on repeatPassword (whose own
\* message, if it has one, comes first) and adds nothing to password
C11_PasswordRuleOnRepeatPassword ==
    form = "demo" =>
        LET r == resolver(form, values, locale)
            passesRule == refinePasses("checkPasswordMatch", parsedData(form, values))
        IN  /\ passesRule <=>
                  /\ values["password"].t = "string"
                  /\ Len(values["password"].v) >= MinPasswordLen
            /\ ~passesRule =>
                  /\ refinementsOf(form)[1].path = "repeatPassword"
                  /\ r.errors["repeatPassword"] # NoError
                  /\ ownError("repeatPassword") = NoError =>
                        r.errors["repeatPassword"] = t(locale, "error.password.length")
                  /\ r.errors["password"] = ownError("password")
C11_Witness ==
    /\ form = "demo"
    /\ Len(values["password"].v) < MinPasswordLen
    /\ Len(values["repeatPassword"].v) >= MinPasswordLen
    /\ errors["repeatPassword"] = t(locale, "error.password.length")
    /\ errors["password"] = t(locale, "error.password.min")

\* C12 as stated: with password "123456" and repeatPassword "1234" the
\* cross-field password check fails, repeatPassword carries an error and
\* password carries none
C12_MismatchFailsCrossFieldCheck ==
    (/\ form = "demo"
     /\ values["password"] = Str(Pw123456)
     /\ values["repeatPassword"] = Str(<<"1", "2", "3", "4">>)) =>
        /\ ~refinePasses("checkPasswordMatch", parsedData(form, values))
        /\ errors["repeatPassword"] # NoError
        /\ errors["password"] = NoError

\* the texts of a locale's message table
translations(loc) == {messages[loc][id] : id \in DOMAIN messages[loc]}

\* C13 as stated, on the demo form: across a locale change every field that
\* had an error still has one, its text is a message of the new locale, and
\* isValid keeps its value
C13_LocaleChangeKeepsErrors ==
    [][(form = "demo" /\ locale' # locale) =>
          /\ \A name \in DOMAIN errors :
                errors[name] # NoError =>
                    /\ errors'[name] # NoError
                    /\ errors'[name] \in translations(locale')
          /\ isValid' = isValid]_vars

\* the fields of the data a .refine() rule reads
refineReads(fn) ==
    CASE fn = "checkPasswordMatch" -> {"password"}
      [] fn = "checkPhoneNumberLength" -> {"country", "phoneNumber"}
      [] OTHER -> {}

\* C14 as stated: when the change of a field f completes, the error slot of f
\* and of the target of every cross-field rule that reads f hold the result of
\* validating the current values, and so does isValid
C14_ChangeRevalidatesTargets ==
    [][values' # values =>
          LET f == CHOOSE name \in fieldNames(form) : values'[name] # values[name]
              refs == refinementsOf(form)
              r == resolver(form, values', locale')
              slots == {f} \cup {refs[j].path : j \in {k \in 1..Len(refs) :
                                                        f \in refineReads(refs[k].fn)}}
          IN  /\ \A name \in slots : errors'[name] = r.errors[name]
              /\ isValid' = isEmptyObject(r.errors)]_vars

hiddenIn(vals, name) == renderVisibility(schemaOf(form, name), vals) = "hidden"

\* C15: a step never changes the value of a field that is hidden before or
\* after it, so a field shown again holds the value it had when it was
\* hidden; and a condition on a hidden field reads that retained value: in
\* the chain form zipCode is shown iff address is not '', address hidden or not
C15_HidingKeepsValues ==
    [][/\ \A name \in fieldNames(form) :
             (hiddenIn(values, name) \/ hiddenIn(values', name)) =>
                 values'[name] = values[name]
       /\ form = "chain" =>
             (hiddenIn(values', "zipCode") <=> values'["address"] = Str(<<>>))]_vars
C15_Witness ==
    /\ form = "chain"
    /\ IsHidden("address")
    /\ values["address"] = Str(MainSt)
    /\ ~IsHidden("zipCode")
    /\ values["zipCode"] # Undefined

\* C16: the step in which the locale changes (the schema is rebuilt with the
\* new t and the fields are compiled again) leaves every field's value as it was
C16_RecompileKeepsValues ==
    [][locale' # locale =>
          /\ DOMAIN values' = DOMAIN values
          /\ \A name \in fieldNames(form) : values'[name] = values[name]]_vars
C16_Witness ==
    /\ locale = "fr"
    /\ values # defaultValuesOf(form)
    /\ \E name \in fieldNames(form) : errors[name] \in translations("fr")

\* what the form shows: for every rendered field its texts and its error
shown(f, vals, errs, loc) ==
    [name \in {n \in fieldNames(f) :
                  renderVisibility(schemaOf(f, n), vals) = "visible"} |->
        [descriptor |-> renderDescriptor(nameChars(name), schemaOf(f, name), loc),
         error |-> errs[name]]]

\* C17 as stated: from a state in locale A, switching to B and back to A
\* (form.trigger() under A again) shows the labels, placeholders, option
\* labels and error messages of the first A state
C17_LocaleRoundTrip ==
    [][locale' # locale =>
          LET back == resolver(form, values', locale).errors
          IN  shown(form, values', back, locale) = shown(form, values, errors, locale)]_vars

\* C18: every name with an entry in errors is a field of the schema's shape,
\* and so is the path of every cross-field rule
C18_ErrorNamesAreFields ==
    /\ \A path \in DOMAIN errors : errors[path] # NoError => path \in fieldNames(form)
    /\ \A j \in 1..Len(refinementsOf(form)) :
          refinementsOf(form)[j].path \in fieldNames(form)
C18_Witness ==
    /\ form = "demo"
    /\ errors["phoneNumber"] = t(locale, "error.phoneNumber.length")
    /\ errors["repeatPassword"] = t(locale, "error.password.length")

\* the type that renderField's switch looks at
probedBase == IF fieldSchema.type = "ZodOptional" THEN fieldSchema.inner ELSE fieldSchema
optionKey(i) == Join(fieldName) \o "." \o Join(probedBase.options[i])

\* C19 as stated: a choice field's options are its n literals in declaration
\* order, n <= 3 or not; each label is the translation of "<name>.<literal>"
\* and, without one, the capitalized literal
C19_OptionsForEveryLiteral ==
    (descriptor # NoDescriptor /\ probedBase.type = "ZodEnum") =>
        /\ Len(descriptor.options) = Len(probedBase.options)
        /\ \A i \in 1..Len(probedBase.options) :
              /\ descriptor.options[i].value = probedBase.options[i]
              /\ descriptor.options[i].label =
                    IF optionKey(i) \in DOMAIN messages[locale]
                    THEN messages[locale][optionKey(i)]
                    ELSE Join(capitalize(probedBase.options[i]))

\* the part of C19 that holds: as above, but the literal '' with no
\* translation is labelled with its key
C19_OptionsForNonEmptyLiterals ==
    (descriptor # NoDescriptor /\ probedBase.type = "ZodEnum") =>
        /\ Len(descriptor.options) = Len(probedBase.options)
        /\ \A i \in 1..Len(probedBase.options) :
              /\ descriptor.options[i].value = probedBase.options[i]
              /\ descriptor.options[i].label =
                    IF optionKey(i) \in DOMAIN messages[locale]
                    THEN messages[locale][optionKey(i)]
                    ELSE IF probedBase.options[i] # <<>>
                    THEN Join(capitalize(probedBase.options[i]))
                    ELSE optionKey(i)

hasMessage(suffix) == ("field." \o Join(fieldName) \o suffix) \in DOMAIN messages[locale]

\* C20 as stated: without a translation the placeholder and the description
\* are undefined (no text), and the label is the humanized field name
C20_MissingTextsUndefined ==
    descriptor # NoDescriptor =>
        /\ ~hasMessage(".placeholder") => descriptor.placeholder = ""
        /\ ~hasMessage(".description") => descriptor.description = ""
        /\ ~hasMessage("") => descriptor.label = Join(humanize(fieldName))

\* the part of C20 that holds: the label of a field without a translation is
\* its humanized name
C20_LabelFallsBack ==
    descriptor # NoDescriptor =>
        /\ fieldName = nameChars("zipCode") => descriptor.label = "Zip code"
        /\ fieldName = nameChars("shoeSize") => descriptor.label = "Shoe size"
        /\ fieldName = nameChars("country") =>
              descriptor.label = IF locale = "en" THEN "Country" ELSE "Pays"

----------------------------------------------------------------------------
(* Claims on the messages, the validation passes and the field kinds *)

\* C21 as stated: in the demo form, under either locale, every error message
\* a field carries is a text of that locale's message table, never the raw
\* message key
C21_ErrorMessagesAreTranslated ==
    form = "demo" =>
        \A name \in DOMAIN errors :
            errors[name] # NoError =>
                /\ errors[name] \in translations(locale)
                /\ errors[name] \notin DOMAIN messages[locale]

\* the pass that a form.trigger('phoneNumber') called from inside
\* checkPhoneNumberLength runs: the resolver again, hence the rule again, hence
\* the next call while country is 'us'; nothing in the code bounds the chain,
\* so the passes are counted modulo MaxPasses + 1
PassPhoneNumber ==
    /\ pending
    /\ \E r \in {resolver(form, values, locale)} :
           /\ errors' = [errors EXCEPT !["phoneNumber"] = r.errors["phoneNumber"]]
           /\ isValid' = isEmptyObject(r.errors)
           /\ pending' = r.triggered
    /\ passes' = (passes + 1) % (MaxPasses + 1)
    /\ UNCHANGED <<form, values, locale, submitRequests, onSubmitCalls>>
    /\ UNCHANGED visVars

\* a step of the user: a value change, a locale change or a press on submit
UserEvent ==
    \/ \E name \in fieldNames(form) : \E v \in widgetInputs(form, name, values[name]) :
          Change(name, v)
    \/ \E l \in Locales : SetLocale(l)
    \/ SubmitPress

NextPasses == UserEvent \/ PassPhoneNumber

\* the session with its re-validation passes left unbounded; a requested pass
\* is run by the call that requests it, so it is never postponed forever
SpecPasses == Init /\ [][NextPasses]_vars /\ WF_vars(PassPhoneNumber)

\* C22 as stated: once the user's events have stopped, the session reaches a
\* state from which no re-validation is pending, also while country is 'us'
C22_ValidationPassesTerminate ==
    (<>[][~UserEvent]_vars) => <>[](~pending)

\* C23 as stated: a field whose showConditions is not a list (one condition
\* object, or a text) is treated as having no conditions: it is rendered
\* visible and evaluating its visibility does not raise
C23_NonListConditionsFailOpen ==
    (/\ rendered # "pending"
     /\ fieldSchema.meta.present
     /\ fieldSchema.meta.showConditions.kind \in {"object", "string"})
        => rendered = "visible"

----------------------------------------------------------------------------
(* fieldConfigs: the variant of ZodForm that first builds one FieldConfig per
   field of the shape and renders from the configs *)

\* fieldSchema.isOptional(): the type accepts undefined
isOptional(node) == parseNode(node, Undefined, "en") = <<>>

\* config.type: set by the instanceof chain, for an optional field from its
\* inner type; a type that no branch handles keeps the initial 'string'
configType(node) ==
    LET kindOf(n) ==
            CASE n.type = "ZodString" -> "string"
              [] n.type = "ZodNumber" -> "number"
              [] n.type = "ZodBoolean" -> "boolean"
              [] n.type = "ZodEnum" -> "enum"
              [] OTHER -> "string"
    IN  IF node.type = "ZodOptional" THEN kindOf(node.inner) ELSE kindOf(node)

configIsRequired_booleanToo(node) ==
    CASE node.type \in {"ZodString", "ZodNumber", "ZodBoolean", "ZodEnum"} ->
            ~isOptional(node)
      [] OTHER -> FALSE

\* config.isRequired: !fieldSchema.isOptional() in the string, number and enum
\* branches, false in the boolean branch, in the optional branch, and for a
\* type that no branch handles
configIsRequired(node) ==
    CASE node.type \in {"ZodString", "ZodNumber", "ZodEnum"} -> ~isOptional(node)
      [] OTHER -> FALSE

\* config.showConditions: the metadata is looked up as in getShowConditions,
\* and its showConditions kept only if Array.isArray
configShowConditions(node) ==
    LET outer == tryMeta(node)
        meta == IF node.type = "ZodOptional" /\ ~outer.present
                THEN tryMeta(node.inner) ELSE outer
    IN  IF meta.present /\ meta.showConditions.kind = "array"
        THEN meta.showConditions ELSE AbsentSC

\* one entry of fieldConfigs, without the placeholder and the password flag
\* that only the text widget reads
fieldConfig(name, node, loc) ==
    LET base == IF node.type = "ZodOptional" THEN node.inner ELSE node
    IN  [name |-> name,
         type |-> configType(node),
         isRequired |-> configIsRequired(node),
         isVisible |-> TRUE,
         options |-> IF base.type = "ZodEnum"
                     THEN options(loc, name, base.options) ELSE <<>>,
         showConditions |-> configShowConditions(node),
         label |-> label(loc, name)]

\* isFieldVisible(config)
configVisible(config, watched) ==
    \/ config.showConditions.kind # "array"
    \/ everyFrom(config.showConditions.items, 1, watched)

\* renderField(config): null for a hidden field, else the switch on config.type
configWidget(config, watched) ==
    IF ~configVisible(config, watched) THEN "hidden"
    ELSE CASE config.type \in {"string", "number"} -> "TextInput"
           [] config.type = "boolean" -> "Switch"
           [] config.type = "enum" ->
                 IF Len(config.options) <= RadioLimit THEN "Radio" ELSE "Select"
           [] OTHER -> "none"

----------------------------------------------------------------------------
(* SpecConfigs: fieldConfigs and renderField(config) on bounded fields *)

ConfigNames ==
    {nameChars(n) : n \in {"name", "country", "repeatPassword", "shoeSize"}}

\* the four kinds, a nested object, and types that carry metadata
ConfigTypes ==
    {Leaf("ZodString", TRUE, NoMeta), Leaf("ZodNumber", TRUE, NoMeta),
     Leaf("ZodBoolean", TRUE, NoMeta), Leaf("ZodObject", TRUE, NoMeta),
     ZodEnum(<<US, FR>>), ZodEnum(<<US, FR, DE>>),
     ZodEnum(<<US, <<"c", "a">>, <<"u", "k">>, FR, DE>>),
     Leaf("ZodString", TRUE, Meta(ObjectSC)),
     Leaf("ZodString", TRUE, Meta(TextSC(US))),
     Leaf("ZodBoolean", TRUE, Meta(ArraySC(<<Cond("country", "equals", Str(US))>>)))}

\* each type bare, declared optional, and wrapped twice
ConfigSchemas ==
    ConfigTypes
    \cup {ZodOptional(ty, NoMeta) : ty \in ConfigTypes}
    \cup {ZodOptional(ZodOptional(ty, NoMeta), NoMeta) : ty \in ConfigTypes}

ConfigWatched == {[country |-> Str(US)], [country |-> Str(FR)]}

InitConfigs ==
    /\ fieldName \in ConfigNames
    /\ fieldSchema \in ConfigSchemas
    /\ watchedValues \in ConfigWatched
    /\ locale = "en"
    /\ descriptor = NoDescriptor
    /\ rendered = "pending"
    /\ form = "none"
    /\ values = <<>>
    /\ errors = <<>>
    /\ isValid = FALSE
    /\ pending = FALSE
    /\ passes = 0
    /\ submitRequests = 0
    /\ onSubmitCalls = <<>>

\* the fieldConfigs memo and fieldConfigs.map(renderField) for the probed field
BuildFieldConfig ==
    /\ descriptor = NoDescriptor
    /\ descriptor' = fieldConfig(fieldName, fieldSchema, locale)
    /\ rendered' = configWidget(descriptor', watchedValues)
    /\ UNCHANGED <<fieldName, fieldSchema, watchedValues>>
    /\ UNCHANGED formVars

\* LocaleSwitcher: the memo depends on t and locale, so the config is rebuilt
RebuildFieldConfig(l) ==
    /\ descriptor # NoDescriptor
    /\ l # locale
    /\ locale' = l
    /\ descriptor' = fieldConfig(fieldName, fieldSchema, l)
    /\ rendered' = configWidget(descriptor', watchedValues)
    /\ UNCHANGED <<fieldName, fieldSchema, watchedValues>>
    /\ UNCHANGED <<form, values, errors, isValid, pending, passes, submitRequests,
                   onSubmitCalls>>

NextConfigs == BuildFieldConfig \/ \E l \in Locales : RebuildFieldConfig(l)

SpecConfigs == InitConfigs /\ [][NextConfigs]_vars

\* the declared type with one optional wrapper removed
Unwrapped == IF fieldSchema.type = "ZodOptional" THEN fieldSchema.inner ELSE fieldSchema
FourKinds == {"ZodString", "ZodNumber", "ZodBoolean", "ZodEnum"}
DeclaredOptional == fieldSchema.type = "ZodOptional"

\* C24 as stated: for a field of one of the four kinds, required is true if
\* the field is not declared optional and false if it is
C24_RequiredIffNotOptional ==
    (descriptor # NoDescriptor /\ Unwrapped.type \in FourKinds) =>
        (descriptor.isRequired <=> ~DeclaredOptional)

\* C24: required is true for a text, number or single-choice field that is
\* not declared optional; it is false for every field declared optional and
\* for every boolean field, declared optional or not
C24_RequiredExceptBoolean ==
    (descriptor # NoDescriptor /\ Unwrapped.type \in FourKinds) =>
        (descriptor.isRequired <=>
            (~DeclaredOptional /\ Unwrapped.type # "ZodBoolean"))
C24_Witness ==
    /\ descriptor # NoDescriptor
    /\ fieldSchema = Leaf("ZodBoolean", TRUE, NoMeta)
    /\ ~descriptor.isRequired
    /\ descriptor.type = "boolean"

ConfigKinds == {"string", "number", "boolean", "enum"}
Widgets == {"TextInput", "Switch", "Radio", "Select"}

\* C25 as stated, on the field configs: Optional(T) gets the kind, the
\* widget and the option list of T, and Optional(Optional(T)) gets no kind
\* and no widget
C25_KindLooksThroughOneWrapper ==
    (descriptor # NoDescriptor /\ DeclaredOptional) =>
        /\ Unwrapped.type \in FourKinds =>
              LET c == fieldConfig(fieldName, Unwrapped, locale)
              IN  /\ descriptor.type = c.type
                  /\ descriptor.options = c.options
                  /\ rendered = configWidget(c, watchedValues)
        /\ (Unwrapped.type = "ZodOptional" /\ Unwrapped.inner.type \in FourKinds) =>
              /\ descriptor.type \notin ConfigKinds
              /\ rendered \notin Widgets

\* the same on renderField, which derives no kind: Optional(T) gets the
\* widget and the options of T, Optional(Optional(T)) no widget
C25_RenderFieldLooksThroughOne ==
    (descriptor # NoDescriptor /\ DeclaredOptional) =>
        /\ Unwrapped.type \in FourKinds =>
              LET d == renderDescriptor(fieldName, Unwrapped, locale)
              IN  /\ descriptor.widget = d.widget /\ descriptor.widget \in Widgets
                  /\ descriptor.options = d.options
        /\ Unwrapped.type = "ZodOptional" => descriptor.widget = "none"

----------------------------------------------------------------------------
(* Claims on the session: what isValid depends on and what the user sees *)

\* C26: in the demo form the result of validation does not depend on whether
\* password and repeatPassword are equal: replacing repeatPassword by any
\* other text of at least 6 characters gives the same errors and the same
\* isValid, so a form with two different passwords of valid length is
\* submitted
C26_RepeatPasswordNotCompared ==
    (form = "demo" /\ Len(values["repeatPassword"].v) >= MinPasswordLen) =>
        \A q \in typedTexts(form, "repeatPassword") :
            Len(q) >= MinPasswordLen =>
                LET other == resolver(form, [values EXCEPT !["repeatPassword"] = Str(q)],
                                      locale)
                IN  /\ other.errors = resolver(form, values, locale).errors
                    /\ isEmptyObject(other.errors) = isValid
C26_Witness ==
    /\ form = "demo"
    /\ Len(onSubmitCalls) = 1
    /\ onSubmitCalls[1]["password"] # onSubmitCalls[1]["repeatPassword"]
    /\ Len(onSubmitCalls[1]["password"].v) >= MinPasswordLen
    /\ Len(onSubmitCalls[1]["repeatPassword"].v) >= MinPasswordLen

\* a rendered field shows its error under its widget
ShowsError(name) == ~IsHidden(name) /\ errors[name] # NoError

\* C27 as stated: whenever isValid is false, at least one visible field
\* displays an error message
C27_InvalidShowsAReason ==
    ~isValid => \E name \in fieldNames(form) : ShowsError(name)

C27_DemoOnly == form = "demo" => C27_InvalidShowsAReason

----------------------------------------------------------------------------
(* Claims on the metadata of optional fields, checked under SpecVis *)

InnerRule == fieldSchema.inner.meta.showConditions

\* C28: for an optional field the inner type's metadata is consulted only when
\* the wrapper carries none: a wrapper without metadata follows the inner
\* showConditions, a wrapper carrying metadata without showConditions ignores
\* them and the field is visible for every value map
C28_WrapperMetadataShadowsInner ==
    (/\ rendered # "pending"
     /\ fieldSchema.type = "ZodOptional"
     /\ fieldSchema.inner.meta.present
     /\ InnerRule.kind = "array") =>
        /\ ~fieldSchema.meta.present =>
              (rendered = "visible" <=> everyFrom(InnerRule.items, 1, watchedValues))
        /\ (fieldSchema.meta.present /\ fieldSchema.meta.showConditions = AbsentSC) =>
              rendered = "visible"
C28_Witness ==
    /\ rendered = "visible"
    /\ fieldSchema.type = "ZodOptional"
    /\ fieldSchema.meta = Meta(AbsentSC)
    /\ fieldSchema.inner.meta.present
    /\ InnerRule.kind = "array"
    /\ ~everyFrom(InnerRule.items, 1, watchedValues)

----------------------------------------------------------------------------
(* Claims on number fields and on fields without a widget *)

\* C29: a number field holds its default value or a text typed by the user
\* (the text widget hands the typed text to onChange unchanged); while it
\* holds typed text it fails the number type check and isValid is false
C29_NumberEditStoresText ==
    form = "readme" =>
        \/ values["age"] = defaultValuesOf(form)["age"]
        \/ /\ values["age"].t = "string"
           /\ ~typeAccepts(schemaOf(form, "age"), values["age"])
           /\ resolver(form, values, locale).errors["age"] = InvalidInput
           /\ ~isValid
C29_Witness ==
    /\ form = "readme"
    /\ values["age"] = Str(<<"2", "1">>)
    /\ values["country"] = Str(US)
    /\ values["zipCode"] = Str(<<"9", "4", "1", "0", "3">>)
    /\ errors["age"] = InvalidInput
    /\ errors["zipCode"] = NoError
    /\ ~isValid

\* C30: a field whose type, one optional wrapper removed, is none of the four
\* kinds (the nested form's profile, an object) gets no widget, so no user
\* edit reaches it, but it is validated with the whole schema: its default
\* value being invalid, it keeps an error and isValid is false in every state
C30_NoWidgetFieldStaysInvalid ==
    form = "nested" =>
        /\ widgetOf(schemaOf(form, "profile")) = "none"
        /\ widgetInputs(form, "profile", values["profile"]) = {}
        /\ values["profile"] = defaultValuesOf(form)["profile"]
        /\ resolver(form, values, locale).errors["profile"] # NoError
        /\ ~isValid
C30_Witness ==
    /\ form = "nested"
    /\ values["name"] = Str(RobinLebhar)
    /\ errors["name"] = NoError
    /\ errors["profile"] = InvalidInput
    /\ locale = "fr"
    /\ submitRequests = 1
    /\ ~isValid

====
